---------------------------- MODULE Spec2Model ----------------------------
(***************************************************************************)
(* Model of src/main.py: the file corruption tool that overwrites a few    *)
(* bytes of a file every step_kb kilobytes and keeps the first and last    *)
(* 1024 bytes untouched.                                                   *)
(*                                                                         *)
(* Three specifications are defined:                                       *)
(*   Spec         the whole program: entry point, the two front ends       *)
(*                (cli_main, interactive_mode) and corrupt_file;           *)
(*   PlannerSpec  protect_region_check applied at the walker's call site   *)
(*                to inputs drawn from bounded sets;                       *)
(*   MutatorSpec  generate_random_byte_not_equal_to applied to the bytes   *)
(*                of an input sequence, as corrupt_file applies it.        *)
(* Text inputs are sequences of one-character strings.  The random source  *)
(* is a nondeterministic choice among sampled values of its range.         *)
(***************************************************************************)
EXTENDS Integers, Sequences, FiniteSets, TLC

VARIABLES
    pc,              \* position of the process
    mode,            \* front end chosen by __main__: "cli" / "interactive" / "none"
    kind,            \* what the target path is: "missing" / "dir" / "file"
    file,            \* the target: [len, diff], see OrigFile
    backup,          \* <path>.bak: [len, diff] (zero length until it is written)
    backup_state,    \* "absent" / "complete" / "partial"
    step_kb,         \* corrupt_file's step_kb argument
    destroy_bytes,   \* corrupt_file's destroy_bytes argument
    make_backup,     \* corrupt_file's make_backup argument / local
    file_size,       \* corrupt_file's file_size, captured once (line 123)
    total_steps,     \* corrupt_file's total_steps
    step_idx,        \* loop variable of the walk
    confirmed,       \* confirm_action returned True
    overridden,      \* the user chose to go on after a failed backup
    written,         \* the <<actual_pos, num_to_corrupt>> of each completed write
    exit_code,       \* process exit status, -1 while running
    ended_by,        \* why the process ended
    pl,              \* PlannerSpec: one call of protect_region_check
    mu               \* MutatorSpec: one run of the byte mutator

vars == <<pc, mode, kind, file, backup, backup_state, step_kb, destroy_bytes,
          make_backup, file_size, total_steps, step_idx, confirmed, overridden,
          written, exit_code, ended_by, pl, mu>>

progvars == <<pc, mode, kind, file, backup, backup_state, step_kb, destroy_bytes,
              make_backup, file_size, total_steps, step_idx, confirmed,
              overridden, written, exit_code, ended_by>>

---------------------------------------------------------------------------
(* Bounds of the model *)

\* destroy arguments are drawn from -1..MaxDestroy
MaxDestroy == 2
\* file sizes are drawn from a few bytes around the window boundaries
MaxExtra == 1
\* PlannerSpec: step_kb is drawn from 1..MaxStepKB
MaxStepKB == 2
\* PlannerSpec: step_idx is drawn from 0..MaxStepIdx
MaxStepIdx == 3
\* MutatorSpec: input sequences have at most MaxMutateLen bytes
MaxMutateLen == 3

(* Program constants *)

safe_start == 1024
step_window == 1024
KB == 1024
ByteMax == 255
DefaultDestroy == 4
HeadTail == 2048

Min(a, b) == IF a <= b THEN a ELSE b
Max(a, b) == IF a >= b THEN a ELSE b

---------------------------------------------------------------------------
(* random.randint(a, b): the values the random source may yield, sampled   *)
(* at both ends of the inclusive range.                                    *)
randint(a, b) == {a, b}

(* A file is kept as its length and the bytes in which it differs from    *)
(* the pre-run content of the target: [len |-> n, diff |-> d] is the file *)
(* of n bytes whose byte i is d[i] for i in DOMAIN d and OrigByte(i)       *)
(* elsewhere.  diff never holds a byte equal to OrigByte, so two files are *)
(* equal exactly when their contents are.                                  *)
OrigByte(i) == i % (ByteMax + 1)
OrigFile(n) == [len |-> n, diff |-> << >>]

Size(f) == f.len
ByteAt(f, i) == IF i \in DOMAIN f.diff THEN f.diff[i] ELSE OrigByte(i)

(* f.seek(pos); f.read(n): at most n bytes, fewer at end of file. *)
ReadBytes(f, pos, n) ==
    [k \in 1..Max(0, Min(n, Size(f) - pos)) |-> ByteAt(f, pos + k - 1)]

(* f.seek(pos); f.write(bs) on a file opened r+b: overwrites in place and *)
(* extends the file (zero-filled gap) when the write runs past its end.   *)
WriteBytes(f, pos, bs) ==
    LET m       == Len(bs)
        newlen  == IF m = 0 THEN f.len ELSE Max(f.len, pos + m)
        byte(i) == IF m > 0 /\ i >= pos /\ i < pos + m THEN bs[i - pos + 1]
                   ELSE IF i < f.len THEN ByteAt(f, i)
                   ELSE 0
        touched == DOMAIN f.diff \cup (IF m = 0 THEN {} ELSE f.len..(pos + m - 1))
                                 \cup (IF m = 0 THEN {} ELSE pos..(pos + m - 1))
    IN  [len  |-> newlen,
         diff |-> [i \in {j \in touched : byte(j) # OrigByte(j)} |-> byte(i)]]

---------------------------------------------------------------------------
(* generate_random_byte_not_equal_to(original): the loop draws a byte until *)
(* the one-byte string differs from `original` and returns it.  The value  *)
(* is the set of one-byte strings the call can return.                     *)
(* variant that returns the first byte drawn, without the comparison *)
NoCheck_generate_random_byte_not_equal_to(original) ==
    {<<b>> : b \in randint(0, ByteMax)}

generate_random_byte_not_equal_to(original) ==
    {bs \in {<<b>> : b \in randint(0, ByteMax)} : bs # original}

(* b''.join([generate_random_byte_not_equal_to(bytes([b]))                 *)
(*           for b in original_bytes]): the byte strings the expression    *)
(* can evaluate to.                                                        *)
RECURSIVE new_bytes_of(_)
new_bytes_of(original_bytes) ==
    IF Len(original_bytes) = 0 THEN {<< >>}
    ELSE {h \o t : h \in generate_random_byte_not_equal_to(<<Head(original_bytes)>>),
                   t \in new_bytes_of(Tail(original_bytes))}

---------------------------------------------------------------------------
(* protect_region_check *)

safe_end(fsize) == fsize - safe_start

(* line 95: the ValueError for a file with no destroyable region *)
protect_region_raises(fsize) == safe_end(fsize) <= safe_start

(* variant that clamps the window to the end of the file, not to safe_end *)
Unprotected_window_end(fsize, pos) == Min(pos + step_window, fsize)

(* line 102: end = min(pos + 1024, safe_end) *)
window_end(fsize, pos) == Min(pos + step_window, safe_end(fsize))

(* line 103 *)
available_range(fsize, pos) == window_end(fsize, pos) - pos

(* variant that does not clamp the count to the window *)
Unclamped_destroy_here(fsize, pos, destroy_count) == destroy_count

(* line 107 *)
destroy_here(fsize, pos, destroy_count) ==
    Min(destroy_count, available_range(fsize, pos))

(* The <<actual_start, destroy_here>> pairs a call can return, for a file   *)
(* size that does not raise.                                               *)
protect_region_check(fsize, pos, destroy_count) ==
    IF pos < safe_start \/ pos >= safe_end(fsize) THEN {<<0, 0>>}
    ELSE IF available_range(fsize, pos) <= 0 THEN {<<0, 0>>}
    ELSE LET dh == destroy_here(fsize, pos, destroy_count)
         IN  IF dh > 0
             THEN {<<pos + r, dh>> :
                      r \in randint(0, available_range(fsize, pos) - dh)}
             ELSE {<<pos, dh>>}

---------------------------------------------------------------------------
(* corrupt_file, lines 126-129 *)

step_bytes_of(skb) == skb * KB

total_steps_of(fsize, skb) ==
    LET sb == step_bytes_of(skb)
        q  == (fsize - HeadTail) \div sb
    IN  IF (fsize - HeadTail) % sb # 0 THEN q + 1 ELSE q

(* variant that advances by step_kb bytes instead of step_kb * 1024 *)
Unscaled_current_pos_of(idx, skb) == safe_start + idx * skb

(* lines 166 and 187 *)
current_pos_of(idx, skb) == safe_start + idx * step_bytes_of(skb)

---------------------------------------------------------------------------
(* Text inputs: a text is a sequence of one-character strings.  A parse    *)
(* yields [ok |-> TRUE, val |-> n] or, where Python raises ValueError,     *)
(* [ok |-> FALSE, val |-> 0].                                              *)

Digits == {"0", "1", "2", "3", "4", "5", "6", "7", "8", "9"}

DigitVal(c) ==
    CASE c = "0" -> 0 [] c = "1" -> 1 [] c = "2" -> 2 [] c = "3" -> 3
      [] c = "4" -> 4 [] c = "5" -> 5 [] c = "6" -> 6 [] c = "7" -> 7
      [] c = "8" -> 8 [] c = "9" -> 9

Raised == [ok |-> FALSE, val |-> 0]
Parsed(n) == [ok |-> TRUE, val |-> n]

(* str.upper() on the letters the inputs use *)
UpperChar(c) ==
    CASE c = "k" -> "K" [] c = "b" -> "B" [] c = "m" -> "M" [] OTHER -> c
upper(s) == [i \in 1..Len(s) |-> UpperChar(s[i])]

(* str.strip(): leading and trailing blanks removed *)
RECURSIVE lstrip(_)
lstrip(s) == IF Len(s) > 0 /\ Head(s) = " " THEN lstrip(Tail(s)) ELSE s
RECURSIVE rstrip(_)
rstrip(s) ==
    IF Len(s) > 0 /\ s[Len(s)] = " " THEN rstrip(SubSeq(s, 1, Len(s) - 1)) ELSE s
strip(s) == rstrip(lstrip(s))

(* value of a sequence of digits *)
RECURSIVE DigitsValue(_)
DigitsValue(ds) ==
    IF Len(ds) = 0 THEN 0
    ELSE 10 * DigitsValue(SubSeq(ds, 1, Len(ds) - 1)) + DigitVal(ds[Len(ds)])

RECURSIVE Pow10(_)
Pow10(k) == IF k = 0 THEN 1 ELSE 10 * Pow10(k - 1)

(* int(text): blanks around, an optional sign, then digits only *)
py_int(text) ==
    LET t      == strip(text)
        signed == Len(t) > 0 /\ t[1] \in {"-", "+"}
        body   == IF signed THEN Tail(t) ELSE t
    IN  IF Len(body) > 0 /\ \A i \in 1..Len(body) : body[i] \in Digits
        THEN Parsed(IF signed /\ t[1] = "-" THEN 0 - DigitsValue(body)
                    ELSE DigitsValue(body))
        ELSE Raised

(* lines 44-49: the length of the leading run of digits and dots *)
RECURSIVE NumPrefixLen(_)
NumPrefixLen(s) ==
    IF Len(s) > 0 /\ (Head(s) \in Digits \/ Head(s) = ".")
    THEN 1 + NumPrefixLen(Tail(s)) ELSE 0

(* int(float(num) * mult) for num made of digits and dots: float() raises  *)
(* unless num holds at most one dot and at least one digit.                *)
scaled_float(num, mult) ==
    LET dots   == {i \in 1..Len(num) : num[i] = "."}
        digits == SelectSeq(num, LAMBDA c : c \in Digits)
        frac   == IF dots = {} THEN 0
                  ELSE Len(num) - (CHOOSE i \in dots : TRUE)
    IN  IF Cardinality(dots) > 1 \/ Len(digits) = 0 THEN Raised
        ELSE Parsed((DigitsValue(digits) * mult) \div Pow10(frac))

(* parse_size_str, lines 39-58 *)
parse_size_str(text) ==
    LET s    == upper(strip(text))
        n    == NumPrefixLen(s)
        num  == IF n = 0 THEN <<"1">> ELSE SubSeq(s, 1, n)
        unit == IF n = Len(s) THEN <<"K", "B">> ELSE SubSeq(s, n + 1, Len(s))
    IN  IF unit = <<"K", "B">> THEN scaled_float(num, KB)
        ELSE IF unit = <<"B">> THEN scaled_float(num, 1)
        ELSE Raised

(* lines 308-318 and 235-243: step_kb from the step text.  int() first;   *)
(* when it raises or yields a value <= 0, parse_size_str(text) // 1024.    *)
resolve_step(text) ==
    LET i == py_int(text)
        p == parse_size_str(text)
    IN  IF i.ok /\ i.val > 0 THEN Parsed(i.val)
        ELSE IF p.ok THEN Parsed(p.val \div KB)
        ELSE Raised

---------------------------------------------------------------------------
(* Inputs *)

(* sizes of the target: around 2048 (no destroyable region), one window,   *)
(* a window plus a partial one, two windows plus a partial one             *)
FileSizes ==
    {HeadTail + d : d \in -1..MaxExtra}
    \cup {HeadTail + KB + d : d \in 0..MaxExtra}
    \cup {HeadTail + 2 * KB + d : d \in 1..MaxExtra}

(* texts given as the step *)
StepInputs ==
    { <<"1">>, <<"2">>, <<"0">>, <<"-", "1">>, <<"1", "K", "B">>,
      <<"2", "k", "b">>, <<"5", "1", "2", "B">>, <<"2", "0", "4", "8", "B">>,
      <<"1", "M", "B">>, <<"0", ".", "5", "K", "B">>, <<"K", "B">>,
      <<"1", ".", "5">> }

(* integers given as --destroy (argparse type=int, default 4) *)
DestroyArgs == (-1..MaxDestroy) \cup {DefaultDestroy}

DigitChar(n) == CHOOSE c \in Digits : DigitVal(c) = n
IntText(n) == IF n < 0 THEN <<"-", DigitChar(0 - n)>> ELSE <<DigitChar(n)>>

(* texts given at the destroy prompt; the empty text takes the default *)
DestroyInputs == {IntText(n) : n \in -1..MaxDestroy} \cup {<< >>, <<"4", "B">>}

---------------------------------------------------------------------------
(* The program *)

NoPlannerCall ==
    [file_size |-> 0, step_kb |-> 0, step_idx |-> 0, destroy_count |-> 0,
     called |-> FALSE, raised |-> FALSE, result |-> <<0, 0>>]
NoMutatorCall == [original |-> << >>, called |-> FALSE, out |-> << >>]

Init ==
    /\ pc = "main"
    /\ mode = "none"
    /\ kind \in {"missing", "dir", "file"}
    /\ \E n \in FileSizes : file = IF kind = "file" THEN OrigFile(n) ELSE OrigFile(0)
    /\ backup = OrigFile(0)
    /\ backup_state = "absent"
    /\ step_kb = 0
    /\ destroy_bytes = 0
    /\ make_backup = FALSE
    /\ file_size = 0
    /\ total_steps = 0
    /\ step_idx = 0
    /\ confirmed = FALSE
    /\ overridden = FALSE
    /\ written = << >>
    /\ exit_code = -1
    /\ ended_by = "running"
    /\ pl = NoPlannerCall
    /\ mu = NoMutatorCall

(* the process ends with status `code` *)
Exit(code, why) ==
    /\ pc' = "exit"
    /\ exit_code' = code
    /\ ended_by' = why

(* lines 352-359: the entry point picks the front end from argv *)
Main ==
    /\ pc = "main"
    /\ \E m \in {"cli", "interactive"} :
          /\ mode' = m
          /\ pc' = IF m = "cli" THEN "cli_path" ELSE "interactive_path"
    /\ UNCHANGED <<kind, file, backup, backup_state, step_kb, destroy_bytes,
                   make_backup, file_size, total_steps, step_idx, confirmed,
                   overridden, written, exit_code, ended_by, pl, mu>>

(* cli_main, lines 300-306 *)
cli_path ==
    /\ pc = "cli_path"
    /\ IF kind # "file"
       THEN Exit(1, "bad_file")
       ELSE pc' = "cli_args" /\ UNCHANGED <<exit_code, ended_by>>
    /\ UNCHANGED <<mode, kind, file, backup, backup_state, step_kb,
                   destroy_bytes, make_backup, file_size, total_steps,
                   step_idx, confirmed, overridden, written, pl, mu>>

(* cli_main, lines 308-323: --step and --destroy *)
cli_args ==
    /\ pc = "cli_args"
    /\ \E st \in StepInputs, d \in DestroyArgs :
          LET r == resolve_step(st)
          IN  IF ~r.ok \/ d <= 0
              THEN /\ Exit(1, "invalid_input")
                   /\ UNCHANGED <<step_kb, destroy_bytes>>
              ELSE /\ step_kb' = r.val
                   /\ destroy_bytes' = d
                   /\ pc' = "cli_backup"
                   /\ UNCHANGED <<exit_code, ended_by>>
    /\ UNCHANGED <<mode, kind, file, backup, backup_state, make_backup,
                   file_size, total_steps, step_idx, confirmed, overridden,
                   written, pl, mu>>

(* cli_main, lines 325-330: --no-backup asks once before going on *)
cli_backup ==
    /\ pc = "cli_backup"
    /\ \E no_backup \in BOOLEAN, answer \in BOOLEAN :
          /\ make_backup' = ~no_backup
          /\ IF no_backup /\ ~answer
             THEN Exit(0, "cancelled")
             ELSE pc' = "cli_confirm" /\ UNCHANGED <<exit_code, ended_by>>
    /\ UNCHANGED <<mode, kind, file, backup, backup_state, step_kb,
                   destroy_bytes, file_size, total_steps, step_idx, confirmed,
                   overridden, written, pl, mu>>

(* variant that ignores what confirm_action returned *)
Unchecked_cli_confirm ==
    /\ pc = "cli_confirm"
    /\ \E answer \in BOOLEAN :
          /\ confirmed' = answer
          /\ pc' = "corrupt_file"
          /\ UNCHANGED <<exit_code, ended_by>>
    /\ UNCHANGED <<mode, kind, file, backup, backup_state, step_kb,
                   destroy_bytes, make_backup, file_size, total_steps,
                   step_idx, overridden, written, pl, mu>>

(* cli_main, lines 334-346: the summary and its confirmation *)
cli_confirm ==
    /\ pc = "cli_confirm"
    /\ \E answer \in BOOLEAN :
          IF answer
          THEN /\ confirmed' = TRUE
               /\ pc' = "corrupt_file"
               /\ UNCHANGED <<exit_code, ended_by>>
          ELSE /\ Exit(0, "cancelled")
               /\ UNCHANGED confirmed
    /\ UNCHANGED <<mode, kind, file, backup, backup_state, step_kb,
                   destroy_bytes, make_backup, file_size, total_steps,
                   step_idx, overridden, written, pl, mu>>

(* interactive_mode, lines 218-226 and 283-285 *)
interactive_path ==
    /\ pc = "interactive_path"
    /\ IF kind # "file"
       THEN Exit(1, "bad_file")
       ELSE pc' = "interactive_args" /\ UNCHANGED <<exit_code, ended_by>>
    /\ UNCHANGED <<mode, kind, file, backup, backup_state, step_kb,
                   destroy_bytes, make_backup, file_size, total_steps,
                   step_idx, confirmed, overridden, written, pl, mu>>

(* interactive_mode, lines 232-257: the step and destroy prompts; an empty *)
(* answer takes the default                                                *)
interactive_args ==
    /\ pc = "interactive_args"
    /\ \E st \in StepInputs \cup {<< >>}, dt \in DestroyInputs :
          LET r == IF strip(st) = << >> THEN Parsed(1) ELSE resolve_step(strip(st))
              d == IF strip(dt) = << >> THEN Parsed(DefaultDestroy)
                   ELSE py_int(strip(dt))
          IN  IF ~r.ok \/ ~d.ok \/ d.val <= 0
              THEN /\ Exit(1, "invalid_input")
                   /\ UNCHANGED <<step_kb, destroy_bytes>>
              ELSE /\ step_kb' = r.val
                   /\ destroy_bytes' = d.val
                   /\ pc' = "interactive_backup"
                   /\ UNCHANGED <<exit_code, ended_by>>
    /\ UNCHANGED <<mode, kind, file, backup, backup_state, make_backup,
                   file_size, total_steps, step_idx, confirmed, overridden,
                   written, pl, mu>>

(* interactive_mode, lines 260-266 *)
interactive_backup ==
    /\ pc = "interactive_backup"
    /\ \E disable \in BOOLEAN : make_backup' = ~disable
    /\ pc' = "interactive_confirm"
    /\ UNCHANGED <<mode, kind, file, backup, backup_state, step_kb,
                   destroy_bytes, file_size, total_steps, step_idx, confirmed,
                   overridden, written, exit_code, ended_by, pl, mu>>

(* interactive_mode, lines 269-281 *)
interactive_confirm ==
    /\ pc = "interactive_confirm"
    /\ \E answer \in BOOLEAN :
          IF answer
          THEN /\ confirmed' = TRUE
               /\ pc' = "corrupt_file"
               /\ UNCHANGED <<exit_code, ended_by>>
          ELSE /\ Exit(0, "cancelled")
               /\ UNCHANGED confirmed
    /\ UNCHANGED <<mode, kind, file, backup, backup_state, step_kb,
                   destroy_bytes, make_backup, file_size, total_steps,
                   step_idx, overridden, written, pl, mu>>

---------------------------------------------------------------------------
(* corrupt_file *)

(* lines 122-129: the size is read once; step_kb = 0 makes the division    *)
(* of line 127 raise ZeroDivisionError, which ends the process (lines      *)
(* 283-285 and 363-365)                                                    *)
corrupt_file_enter ==
    /\ pc = "corrupt_file"
    /\ file_size' = Size(file)
    /\ IF step_bytes_of(step_kb) = 0
       THEN /\ Exit(1, "crash")
            /\ UNCHANGED total_steps
       ELSE /\ total_steps' = total_steps_of(Size(file), step_kb)
            /\ pc' = IF make_backup THEN "backup" ELSE "open"
            /\ UNCHANGED <<exit_code, ended_by>>
    /\ UNCHANGED <<mode, kind, file, backup, backup_state, step_kb,
                   destroy_bytes, make_backup, step_idx, confirmed, overridden,
                   written, pl, mu>>

(* what a failed shutil.copy2 may leave at backup_path *)
PartialCopy(f) ==
    LET n == Size(f) \div 2
    IN  [len |-> n, diff |-> [i \in {j \in DOMAIN f.diff : j < n} |-> f.diff[i]]]

(* variant in which the copy stops half way without raising *)
Truncating_backup_content(f) == PartialCopy(f)

(* what a successful shutil.copy2 leaves at backup_path (line 137) *)
backup_content(f) == f

(* lines 133-146: the copy; when it fails the user is asked whether to go  *)
(* on without a backup, and a refusal returns from corrupt_file            *)
corrupt_file_backup ==
    /\ pc = "backup"
    /\ \/ /\ backup' = backup_content(file)
          /\ backup_state' = "complete"
          /\ pc' = "open"
          /\ UNCHANGED <<make_backup, overridden, exit_code, ended_by>>
       \/ /\ \E partial \in BOOLEAN :
                IF partial
                THEN backup' = PartialCopy(file) /\ backup_state' = "partial"
                ELSE UNCHANGED <<backup, backup_state>>
          /\ \E answer \in BOOLEAN :
                IF answer
                THEN /\ make_backup' = FALSE
                     /\ overridden' = TRUE
                     /\ pc' = "open"
                     /\ UNCHANGED <<exit_code, ended_by>>
                ELSE /\ Exit(0, "backup_declined")
                     /\ UNCHANGED <<make_backup, overridden>>
    /\ UNCHANGED <<mode, kind, file, step_kb, destroy_bytes, file_size,
                   total_steps, step_idx, confirmed, written, pl, mu>>

(* line 149: open(file_path, 'r+b') *)
corrupt_file_open ==
    /\ pc = "open"
    /\ pc' = "walk"
    /\ step_idx' = 0
    /\ UNCHANGED <<mode, kind, file, backup, backup_state, step_kb,
                   destroy_bytes, make_backup, file_size, total_steps,
                   confirmed, overridden, written, exit_code, ended_by, pl, mu>>

(* lines 186-199 (and the same loop at 165-182): one step of the walk *)
corrupt_file_step ==
    /\ pc = "walk"
    /\ step_idx < total_steps
    /\ IF protect_region_raises(file_size)
       THEN /\ Exit(1, "invalid_input")
            /\ UNCHANGED <<file, step_idx, written>>
       ELSE /\ \E res \in protect_region_check(
                              file_size, current_pos_of(step_idx, step_kb),
                              destroy_bytes) :
                  LET actual_pos     == res[1]
                      num_to_corrupt == res[2]
                      original_bytes == ReadBytes(file, actual_pos, num_to_corrupt)
                  IN  IF num_to_corrupt <= 0
                      THEN /\ UNCHANGED file
                           /\ written' = Append(written, <<actual_pos, 0>>)
                      ELSE \E new_bytes \in new_bytes_of(original_bytes) :
                              /\ file' = WriteBytes(file, actual_pos, new_bytes)
                              /\ written' = Append(written,
                                               <<actual_pos, Len(new_bytes)>>)
            /\ step_idx' = step_idx + 1
            /\ UNCHANGED <<pc, exit_code, ended_by>>
    /\ UNCHANGED <<mode, kind, backup, backup_state, step_kb, destroy_bytes,
                   make_backup, file_size, total_steps, confirmed, overridden,
                   pl, mu>>

(* lines 204-205: the loop is over, corrupt_file returns and the process  *)
(* ends normally                                                           *)
corrupt_file_done ==
    /\ pc = "walk"
    /\ step_idx >= total_steps
    /\ Exit(0, "success")
    /\ UNCHANGED <<mode, kind, file, backup, backup_state, step_kb,
                   destroy_bytes, make_backup, file_size, total_steps,
                   step_idx, confirmed, overridden, written, pl, mu>>

(* lines 206-208: open, seek, read or write raises; the exception leaves   *)
(* corrupt_file and ends the process with status 1                         *)
io_failure ==
    /\ pc \in {"open", "walk"}
    /\ Exit(1, "io_error")
    /\ UNCHANGED <<mode, kind, file, backup, backup_state, step_kb,
                   destroy_bytes, make_backup, file_size, total_steps,
                   step_idx, confirmed, overridden, written, pl, mu>>

(* lines 360-362: KeyboardInterrupt, wherever the process is *)
keyboard_interrupt ==
    /\ pc \notin {"main", "exit", "off"}
    /\ Exit(1, "interrupt")
    /\ UNCHANGED <<mode, kind, file, backup, backup_state, step_kb,
                   destroy_bytes, make_backup, file_size, total_steps,
                   step_idx, confirmed, overridden, written, pl, mu>>

Next ==
    \/ Main
    \/ cli_path
    \/ cli_args
    \/ cli_backup
    \/ cli_confirm
    \/ interactive_path
    \/ interactive_args
    \/ interactive_backup
    \/ interactive_confirm
    \/ corrupt_file_enter
    \/ corrupt_file_backup
    \/ corrupt_file_open
    \/ corrupt_file_step
    \/ corrupt_file_done
    \/ io_failure
    \/ keyboard_interrupt

Spec == Init /\ [][Next]_vars

---------------------------------------------------------------------------
(* PlannerSpec: protect_region_check called as the walk calls it (lines    *)
(* 187-189), on inputs drawn from bounded sets                             *)

ProgramOff ==
    /\ pc = "off"
    /\ mode = "none"
    /\ kind = "missing"
    /\ file = OrigFile(0)
    /\ backup = OrigFile(0)
    /\ backup_state = "absent"
    /\ step_kb = 0
    /\ destroy_bytes = 0
    /\ make_backup = FALSE
    /\ file_size = 0
    /\ total_steps = 0
    /\ step_idx = 0
    /\ confirmed = FALSE
    /\ overridden = FALSE
    /\ written = << >>
    /\ exit_code = -1
    /\ ended_by = "running"

PlannerFileSizes ==
    {HeadTail + w * KB + d : w \in 0..MaxStepIdx, d \in 0..(MaxExtra + 1)}

PlannerDestroys ==
    (1..MaxDestroy) \cup {DefaultDestroy}
    \cup {step_window + d : d \in -1..1} \cup {2 * step_window, 3 * step_window}

PlannerInit ==
    /\ ProgramOff
    /\ mu = NoMutatorCall
    /\ \E fs \in PlannerFileSizes, skb \in 1..MaxStepKB, idx \in 0..MaxStepIdx,
          dc \in PlannerDestroys :
          pl = [file_size |-> fs, step_kb |-> skb, step_idx |-> idx,
                destroy_count |-> dc, called |-> FALSE, raised |-> FALSE,
                result |-> <<0, 0>>]

planner_call ==
    /\ ~pl.called
    /\ IF protect_region_raises(pl.file_size)
       THEN pl' = [pl EXCEPT !.called = TRUE, !.raised = TRUE]
       ELSE \E res \in protect_region_check(
                          pl.file_size, current_pos_of(pl.step_idx, pl.step_kb),
                          pl.destroy_count) :
               pl' = [pl EXCEPT !.called = TRUE, !.result = res]
    /\ UNCHANGED <<progvars, mu>>

PlannerSpec == PlannerInit /\ [][planner_call]_vars

---------------------------------------------------------------------------
(* MutatorSpec: the expression of lines 177 and 196 applied to input byte  *)
(* sequences drawn from a bounded set                                      *)

MutatorBytes == {0, 1, ByteMax - 1, ByteMax}

RECURSIVE SeqsUpTo(_, _)
SeqsUpTo(S, n) ==
    IF n = 0 THEN {<< >>}
    ELSE LET shorter == SeqsUpTo(S, n - 1)
         IN  shorter \cup {Append(q, x) : q \in shorter, x \in S}

MutatorInit ==
    /\ ProgramOff
    /\ pl = NoPlannerCall
    /\ \E ob \in SeqsUpTo(MutatorBytes, MaxMutateLen) :
          mu = [original |-> ob, called |-> FALSE, out |-> << >>]

mutator_call ==
    /\ ~mu.called
    /\ \E nb \in new_bytes_of(mu.original) :
          mu' = [mu EXCEPT !.called = TRUE, !.out = nb]
    /\ UNCHANGED <<progvars, pl>>

MutatorSpec == MutatorInit /\ [][mutator_call]_vars

---------------------------------------------------------------------------
(* Properties *)

RangeOf(w) == w[1]..(w[1] + w[2] - 1)

RECURSIVE SumCounts(_)
SumCounts(ws) == IF Len(ws) = 0 THEN 0 ELSE Head(ws)[2] + SumCounts(Tail(ws))

(* a run of corrupt_file on valid arguments, once the size is captured *)
ValidRun == file_size > 2048 /\ step_kb >= 1 /\ destroy_bytes >= 1

(* C1: in a valid run, whatever the random choices and after any number    *)
(* of steps, every byte that differs from its pre-run value, and every     *)
(* write of the walk, lies in [1024, file_size - 1024); the file keeps     *)
(* its length, so the first and the last 1024 bytes hold their pre-run     *)
(* values.                                                                 *)
C1_ProtectedRegionsUntouched ==
    ValidRun =>
        /\ Size(file) = file_size
        /\ \A i \in DOMAIN file.diff : 1024 <= i /\ i < file_size - 1024
        /\ \A k \in 1..Len(written) :
              written[k][2] > 0 =>
                 /\ 1024 <= written[k][1]
                 /\ written[k][1] + written[k][2] <= file_size - 1024

(* a completed run whose first write starts at the first destroyable byte  *)
(* and whose last write ends at the last one                               *)
C1_Witness ==
    /\ ValidRun
    /\ ended_by = "success"
    /\ Len(written) >= 2
    /\ written[1][1] = 1024
    /\ written[Len(written)][1] + written[Len(written)][2] = file_size - 1024

(* C2: the mutator's output has the length of its input and differs from   *)
(* it at every position, whatever the random source yields.                *)
C2_MutatorDiffersEverywhere ==
    mu.called =>
        /\ Len(mu.out) = Len(mu.original)
        /\ \A i \in 1..Len(mu.original) : mu.out[i] # mu.original[i]

(* an input whose bytes are values the random source can draw *)
C2_Witness ==
    /\ mu.called
    /\ Len(mu.original) >= 2
    /\ mu.original[1] = 0
    /\ mu.original[2] = 255

(* C3: with a target of at most 2048 bytes, no byte is written, no backup  *)
(* is created and the run does not end in success.                         *)
C3_SmallFileRejected ==
    (kind = "file" /\ Size(file) <= 2048) =>
        /\ DOMAIN file.diff = {}
        /\ backup_state = "absent"
        /\ ended_by # "success"

(* C4: once the copy has succeeded, the backup holds the pre-run content   *)
(* of the target in every later state, also when the walk is interrupted   *)
(* or fails part way.                                                      *)
C4_BackupIsPreRunContent ==
    backup_state = "complete" =>
        /\ Size(backup) = file_size
        /\ DOMAIN backup.diff = {}

(* the walk ended by a failure or an interrupt after it wrote, before its  *)
(* last step                                                               *)
C4_Witness ==
    /\ backup_state = "complete"
    /\ ended_by \in {"io_error", "interrupt"}
    /\ step_idx < total_steps
    /\ DOMAIN file.diff # {}

(* C5: a byte of the target is written only after the summary was          *)
(* confirmed and, when a backup was asked for, after the copy succeeded or *)
(* its failure was overridden; a run ended by declining leaves the target  *)
(* as it was.                                                              *)
C5_NoWriteWithoutConsent ==
    /\ (written # << >> \/ DOMAIN file.diff # {}) =>
          /\ confirmed
          /\ \/ backup_state = "complete"
             \/ overridden
             \/ (~make_backup /\ backup_state = "absent")
    /\ ended_by \in {"cancelled", "backup_declined"} =>
          (written = << >> /\ DOMAIN file.diff = {})

(* the interactive front end wrote after a failed backup was overridden *)
C5_Witness ==
    /\ mode = "interactive"
    /\ overridden
    /\ confirmed
    /\ DOMAIN file.diff # {}

(* the window of a planner call, as the walk computes it *)
PlPos == 1024 + pl.step_idx * (pl.step_kb * 1024)
PlEligible ==
    /\ pl.called
    /\ ~pl.raised
    /\ 1024 <= PlPos
    /\ PlPos < pl.file_size - 1024

(* C6 as stated: actualCount = min(destroyCount, availableLength) with     *)
(* availableLength = min(windowStart + stepSizeBytes, safeEnd) -           *)
(* windowStart, for every step size.                                       *)
C6_CountUsesStepSize ==
    PlEligible =>
        pl.result[2] =
            Min(pl.destroy_count,
                Min(PlPos + pl.step_kb * 1024, pl.file_size - 1024) - PlPos)

(* C6 amended: the available length is that of a 1024-byte window,         *)
(* min(windowStart + 1024, safeEnd) - windowStart, whatever the step size. *)
C6_CountUsesOneKBWindow ==
    PlEligible =>
        pl.result[2] =
            Min(pl.destroy_count,
                Min(PlPos + 1024, pl.file_size - 1024) - PlPos)

(* a 2 KB step with more than 1024 bytes asked for and 2048 available *)
C6_Witness ==
    /\ PlEligible
    /\ pl.step_kb = 2
    /\ pl.destroy_count > 1024
    /\ PlPos + 2048 <= pl.file_size - 1024
    /\ pl.result[2] = 1024

(* C7: for an eligible window the destroyed run starts at or after the     *)
(* window start, is no longer than min(destroyCount, available length of   *)
(* the step-sized window) and ends at or before                            *)
(* min(windowStart + stepSizeBytes, safeEnd).                              *)
C7_RunInsideWindowAndSafeRegion ==
    PlEligible =>
        LET limit == Min(PlPos + pl.step_kb * 1024, pl.file_size - 1024)
        IN  /\ PlPos <= pl.result[1]
            /\ pl.result[2] <= Min(pl.destroy_count, limit - PlPos)
            /\ pl.result[1] + pl.result[2] <= limit

(* a partial last window in which the run was placed at its far end *)
C7_Witness ==
    /\ PlEligible
    /\ pl.file_size - 1024 < PlPos + 1024
    /\ pl.result[1] > PlPos
    /\ pl.result[1] + pl.result[2] = pl.file_size - 1024

(* C8: corrupt_file is only ever entered with a positive step and a        *)
(* positive destroy count.                                                 *)
C8_PlanIsPositive ==
    pc \in {"corrupt_file", "backup", "open", "walk"} =>
        (step_kb > 0 /\ destroy_bytes > 0)

(* C9: the exit status is non-zero after invalid input, a missing or       *)
(* non-regular file, a failed backup the user did not override or an I/O   *)
(* failure, and zero after success or a cancellation.  Stated for targets  *)
(* that are missing, not regular, or larger than 2048 bytes, so that a     *)
(* violation does not rest on the handling of a too small file.            *)
C9_ExitStatus ==
    (pc = "exit" /\ (kind # "file" \/ Size(file) > 2048)) =>
        /\ ended_by \in {"invalid_input", "bad_file", "backup_declined",
                         "io_error"} => exit_code # 0
        /\ ended_by \in {"success", "cancelled"} => exit_code = 0

(* C10: in a valid run every completed step wrote at least one byte, the   *)
(* written ranges are pairwise disjoint, and the bytes that differ from    *)
(* their pre-run value are exactly the union of the written ranges, as     *)
(* many as the sum of the steps' counts.                                   *)
C10_EveryStepWritesDisjointRanges ==
    (ValidRun /\ pc \in {"walk", "exit"}) =>
        /\ Len(written) = step_idx
        /\ \A k \in 1..Len(written) : written[k][2] >= 1
        /\ \A j, k \in 1..Len(written) :
              j # k => RangeOf(written[j]) \cap RangeOf(written[k]) = {}
        /\ DOMAIN file.diff = UNION {RangeOf(written[k]) : k \in 1..Len(written)}
        /\ Cardinality(DOMAIN file.diff) = SumCounts(written)

(* a completed walk of three steps, each writing more than one byte but    *)
(* the last                                                                *)
C10_Witness ==
    /\ ValidRun
    /\ ended_by = "success"
    /\ step_idx = total_steps
    /\ Len(written) = 3
    /\ written[1][2] >= 2

===========================================================================
